---- MODULE Spec2Model ----
(***************************************************************************)
(* Model of src/src/satisfia/util/distribution.py: the categorical         *)
(* distribution (weighted category set, running total weight, lazily       *)
(* recomputed descending-weight order) and the discrete uniform            *)
(* distribution.                                                           *)
(*                                                                         *)
(* A Python dict keeps its keys in insertion order and sorted() is stable, *)
(* so a dict is modelled as a sequence of <<name, weight>> entries with    *)
(* distinct names.  Weights are integers (exact arithmetic).  The value    *)
(* handed to _select is carried in halves ("chance2" = 2 * chance) so that *)
(* _weight_total / 2.0 is represented exactly.                             *)
(***************************************************************************)
EXTENDS Integers, Sequences, FiniteSets

\* ---- bounds of the model ----
MaxLabel == 0
MaxWeight == 1
MaxBound == 6

Labels == -1 .. MaxLabel
Weights == -1 .. MaxWeight
Bounds == -1 .. MaxBound

VARIABLES
    kind,            \* which class the object under test is an instance of
    _categories,     \* categorical._categories
    _weight_total,   \* categorical._weight_total
    _order_sticky,   \* categorical._order_sticky (TRUE = order cache stale)
    _order,          \* categorical._order (<<>> until first computed)
    low,             \* uniform.low
    high,            \* uniform.high
    _count,          \* uniform._count
    call             \* the last call made on the object and how it ended

vars == <<kind, _categories, _weight_total, _order_sticky, _order,
          low, high, _count, call>>

\* ---- dict helpers (Python dict semantics) ----
RECURSIVE Keys(_)
Keys(d) == IF d = <<>> THEN {} ELSE {Head(d)[1]} \cup Keys(Tail(d))

KeyList(d) == [i \in 1 .. Len(d) |-> d[i][1]]

Has(d, name) == \E i \in 1 .. Len(d) : d[i][1] = name

Get(d, name) == d[CHOOSE i \in 1 .. Len(d) : d[i][1] = name][2]

DictSet(d, name, weight) ==
    IF Has(d, name)
    THEN [i \in 1 .. Len(d) |-> IF d[i][1] = name THEN <<name, weight>> ELSE d[i]]
    ELSE Append(d, <<name, weight>>)

DictDel(d, name) == SelectSeq(d, LAMBDA e : e[1] # name)

RECURSIVE SumWeights(_)
SumWeights(d) == IF d = <<>> THEN 0 ELSE Head(d)[2] + SumWeights(Tail(d))

Dicts ==
    { d \in UNION { [1 .. n -> Labels \X Weights] : n \in 0 .. Cardinality(Labels) } :
        \A i, j \in 1 .. Len(d) : i # j => d[i][1] # d[j][1] }

\* ---- outcome of a call ----
Returned == "return"
ValueError == "ValueError"
KeyError == "KeyError"
EmptyDistribution == ValueError

\* call.op/name: the call; kind/value/list: how it ended and what it returned;
\* u: the value handed to _select (in halves); had: name was a key before the
\* call; pre/old: total weight and weight of name before the last
\* category_set; roundtrip: a category_del that directly follows a
\* category_set of the same name; med: outcome of the latest earlier median()
\* with no category_set/category_del since (<<>> if none)
NoCall ==
    [op |-> "init", name |-> 0, kind |-> Returned, value |-> 0, list |-> <<>>,
     u |-> 0, pre |-> 0, old |-> 0, had |-> FALSE, roundtrip |-> FALSE,
     med |-> <<>>]

EarlierMedian == IF call.op = "median" THEN <<call.kind, call.list>> ELSE call.med

\* ---- categorical ----
\* variant: the sort key without the minus sign (lightest first)
priority_ascending(d, name) == Get(d, name)

\* line 65: the sort key of _select
priority(d, name) == 0 - Get(d, name)

RECURSIVE InsertSorted(_, _, _)
InsertSorted(d, s, name) ==
    IF s = <<>> THEN <<name>>
    ELSE IF priority(d, name) < priority(d, Head(s))
         THEN <<name>> \o s
         ELSE <<Head(s)>> \o InsertSorted(d, Tail(s), name)

RECURSIVE SortFrom(_, _, _)
SortFrom(d, s, names) ==
    IF names = <<>> THEN s
    ELSE SortFrom(d, InsertSorted(d, s, Head(names)), Tail(names))

sorted(d) == SortFrom(d, <<>>, KeyList(d))

\* variant: the loop stops as soon as the running value is no longer positive
RECURSIVE Scan_not_positive(_, _, _)
Scan_not_positive(d, ord, chance2) ==
    IF ord = <<>> THEN [end |-> "exhausted", name |-> 0]
    ELSE IF ~Has(d, Head(ord)) THEN [end |-> "missing", name |-> Head(ord)]
    ELSE IF chance2 - 2 * Get(d, Head(ord)) <= 0
         THEN [end |-> "found", name |-> Head(ord)]
         ELSE Scan_not_positive(d, Tail(ord), chance2 - 2 * Get(d, Head(ord)))

\* variant: the loop tests the running value before it subtracts the weight
RECURSIVE Scan_test_first(_, _, _)
Scan_test_first(d, ord, chance2) ==
    IF ord = <<>> THEN [end |-> "exhausted", name |-> 0]
    ELSE IF ~Has(d, Head(ord)) THEN [end |-> "missing", name |-> Head(ord)]
    ELSE IF chance2 < 0
         THEN [end |-> "found", name |-> Head(ord)]
         ELSE Scan_test_first(d, Tail(ord), chance2 - 2 * Get(d, Head(ord)))

\* the for loop of _select; "exhausted" when the loop ends without returning,
\* "missing" when _order names a label that is no longer a key
RECURSIVE Scan(_, _, _)
Scan(d, ord, chance2) ==
    IF ord = <<>> THEN [end |-> "exhausted", name |-> 0]
    ELSE IF ~Has(d, Head(ord)) THEN [end |-> "missing", name |-> Head(ord)]
    ELSE IF chance2 - 2 * Get(d, Head(ord)) < 0
         THEN [end |-> "found", name |-> Head(ord)]
         ELSE Scan(d, Tail(ord), chance2 - 2 * Get(d, Head(ord)))

\* the result of _select for the outcome r of the loop over ord: the value it
\* returns or the error it raises, and the cache fields it leaves behind;
\* line 83 reads self._categories[-1], the weight stored under the key -1
select_result(r, ord) ==
    [kind |-> IF r.end = "found" THEN Returned
              ELSE IF r.end = "missing" THEN KeyError
              ELSE IF Has(_categories, -1) THEN Returned ELSE KeyError,
     value |-> IF r.end = "found" THEN r.name
               ELSE IF r.end = "exhausted" /\ Has(_categories, -1)
                    THEN Get(_categories, -1) ELSE 0,
     sticky |-> FALSE, order |-> ord]

\* variant: no test for an empty category set
_select_unchecked(chance2) ==
    LET ord == IF _order_sticky THEN sorted(_categories) ELSE _order
    IN  select_result(Scan(_categories, ord, chance2), ord)

\* variant: the loop consumes the cached order up to the label it returns
RECURSIVE Consumed(_, _)
Consumed(ord, name) ==
    IF ord = <<>> THEN <<>>
    ELSE IF Head(ord) = name THEN Tail(ord) ELSE Consumed(Tail(ord), name)

_select_consuming(chance2) ==
    IF Len(_categories) = 0
    THEN [kind |-> ValueError, value |-> 0,
          sticky |-> _order_sticky, order |-> _order]
    ELSE LET ord == IF _order_sticky THEN sorted(_categories) ELSE _order
             r == Scan(_categories, ord, chance2)
         IN  [select_result(r, ord) EXCEPT
                !.order = IF r.end = "found" THEN Consumed(ord, r.name) ELSE <<>>]

_select(chance2) ==
    IF Len(_categories) = 0
    THEN [kind |-> ValueError, value |-> 0,
          sticky |-> _order_sticky, order |-> _order]
    ELSE LET ord == IF _order_sticky THEN sorted(_categories) ELSE _order
         IN  select_result(Scan(_categories, ord, chance2), ord)

categorical(categories) ==
    /\ kind = "categorical"
    /\ _categories = categories
    /\ _weight_total = SumWeights(categories)
    /\ _order_sticky = TRUE
    /\ _order = <<>>
    /\ low = 0 /\ high = 0 /\ _count = 0
    /\ call = NoCall

bernoulli(p) == <<(<<0, 1 - p>>), (<<1, p>>)>>

\* variant: the weight being replaced is not taken off the total
category_set_total_keeps_old(d, total, name, weight) == total + weight

\* lines 49-51: the running total after category_set
category_set_total(d, total, name, weight) ==
    (IF Has(d, name) THEN total - Get(d, name) ELSE total) + weight

category_set(name, weight) ==
    /\ kind = "categorical"
    /\ _weight_total' = category_set_total(_categories, _weight_total, name, weight)
    /\ _order_sticky' = TRUE
    /\ _categories' = DictSet(_categories, name, weight)
    /\ call' = [NoCall EXCEPT !.op = "category_set", !.name = name,
                  !.pre = _weight_total,
                  !.had = Has(_categories, name),
                  !.old = IF Has(_categories, name)
                          THEN Get(_categories, name) ELSE 0]
    /\ UNCHANGED <<kind, _order, low, high, _count>>

\* variant: the removed weight is not taken off the total
category_del_total_keeps_old(d, total, name) == total

\* lines 57-58: the running total after category_del
category_del_total(d, total, name) ==
    IF Has(d, name) THEN total - Get(d, name) ELSE total

\* "del self._categories[name]" raises KeyError when name is not a key; the
\* assignment to _order_sticky on line 59 has already happened by then
category_del(name) ==
    /\ kind = "categorical"
    /\ _weight_total' = category_del_total(_categories, _weight_total, name)
    /\ _order_sticky' = TRUE
    /\ _categories' = IF Has(_categories, name)
                      THEN DictDel(_categories, name) ELSE _categories
    /\ call' = [NoCall EXCEPT !.op = "category_del", !.name = name,
                  !.kind = IF Has(_categories, name) THEN Returned ELSE KeyError,
                  !.had = Has(_categories, name),
                  !.roundtrip = (call.op = "category_set" /\ call.name = name),
                  !.pre = IF call.op = "category_set" /\ call.name = name
                          THEN call.pre ELSE 0,
                  !.old = IF call.op = "category_set" /\ call.name = name
                          THEN call.old ELSE 0]
    /\ UNCHANGED <<kind, _order, low, high, _count>>

\* random.uniform(0, _weight_total): 0 + (_weight_total - 0) * random(), in
\* halves; the end point may be produced by rounding
Draws == IF _weight_total >= 0 THEN 0 .. 2 * _weight_total
         ELSE 2 * _weight_total .. 0

categorical_sample_single(u2) ==
    /\ kind = "categorical"
    /\ LET r == _select(u2)
       IN  /\ _order_sticky' = r.sticky
           /\ _order' = r.order
           /\ call' = [NoCall EXCEPT !.op = "sample", !.kind = r.kind,
                         !.value = r.value, !.u = u2,
                         !.med = EarlierMedian]
    /\ UNCHANGED <<kind, _categories, _weight_total, low, high, _count>>

categorical_median ==
    /\ kind = "categorical"
    /\ LET r == _select(_weight_total)
       IN  /\ _order_sticky' = r.sticky
           /\ _order' = r.order
           /\ call' = [NoCall EXCEPT !.op = "median", !.kind = r.kind,
                         !.list = IF r.kind = Returned THEN <<r.value>> ELSE <<>>,
                         !.u = _weight_total, !.med = EarlierMedian]
    /\ UNCHANGED <<kind, _categories, _weight_total, low, high, _count>>

\* ---- uniform ----
uniform(l, h) ==
    /\ kind = "uniform"
    /\ low = l
    /\ high = h
    /\ _count = h - l + 1
    /\ _categories = <<>> /\ _weight_total = 0
    /\ _order_sticky = TRUE /\ _order = <<>>
    /\ call = NoCall

\* random.randint(low, high): ValueError on an empty range
uniform_sample_single ==
    /\ kind = "uniform"
    /\ IF low > high
       THEN call' = [NoCall EXCEPT !.op = "sample", !.kind = ValueError]
       ELSE \E v \in low .. high :
               call' = [NoCall EXCEPT !.op = "sample", !.value = v]
    /\ UNCHANGED <<kind, _categories, _weight_total, _order_sticky, _order,
                   low, high, _count>>

\* variant: both indices rounded up
uniform_median_list_rounded_up(l, count) ==
    LET left == l + (count \div 2)
        right == l + ((count + 1) \div 2)
    IN  IF right > left THEN <<left, right>> ELSE <<left>>

\* lines 112-115: the list uniform.median returns
uniform_median_list(l, count) ==
    LET left == l + ((count - 1) \div 2)
        right == l + (count \div 2)
    IN  IF right > left THEN <<left, right>> ELSE <<left>>

uniform_median ==
    /\ kind = "uniform"
    /\ call' = [NoCall EXCEPT !.op = "median",
                  !.list = uniform_median_list(low, _count)]
    /\ UNCHANGED <<kind, _categories, _weight_total, _order_sticky, _order,
                   low, high, _count>>

\* ---- specification ----
Init ==
    \/ \E categories \in Dicts : categorical(categories)
    \/ \E l \in Bounds, h \in Bounds : uniform(l, h)

Next ==
    \/ \E name \in Labels, weight \in Weights : category_set(name, weight)
    \/ \E name \in Labels : category_del(name)
    \/ \E u2 \in Draws : categorical_sample_single(u2)
    \/ categorical_median
    \/ uniform_sample_single
    \/ uniform_median

Spec == Init /\ [][Next]_vars

TypeOK ==
    /\ kind \in {"categorical", "uniform"}
    /\ _order_sticky \in BOOLEAN
    /\ _weight_total \in Int
    /\ call.kind \in {Returned, ValueError, KeyError}

\* ---- vocabulary of the properties ----
IsCategorical == kind = "categorical"
IsUniform == kind = "uniform"
Clean == IsCategorical /\ ~_order_sticky
NonNegative(d) == \A i \in 1 .. Len(d) : d[i][2] >= 0
IsQuery(c) == c.op \in {"sample", "median"}
IsMutation(c) == c.op \in {"category_set", "category_del"}

\* 2 * (sum of the weights of the first k labels of ord)
RECURSIVE Cumulative2(_, _, _)
Cumulative2(d, ord, k) ==
    IF k = 0 THEN 0 ELSE 2 * Get(d, ord[k]) + Cumulative2(d, ord, k - 1)

\* ord lists every key of d exactly once, heaviest first
IsDescendingOrder(d, ord) ==
    /\ Len(ord) = Len(d)
    /\ {ord[i] : i \in 1 .. Len(ord)} = Keys(d)
    /\ \A i, j \in 1 .. Len(ord) : i < j => Get(d, ord[i]) >= Get(d, ord[j])

\* subtracting the weights along ord never makes a value of u2 halves negative
NeverNegative(d, ord, u2) ==
    \A k \in 1 .. Len(ord) : u2 - Cumulative2(d, ord, k) >= 0

\* name is the first label of ord at which the cumulative weight strictly
\* exceeds half of the total
IsHalfWeightPoint(d, ord, total, name) ==
    \E k \in 1 .. Len(ord) :
        /\ ord[k] = name
        /\ Cumulative2(d, ord, k) > total
        /\ \A j \in 1 .. (k - 1) : Cumulative2(d, ord, j) <= total

\* ---- C1 ----
\* C1: category_del of a label that is not a key completes normally and leaves
\* the category set and the total weight as they were.
C1_RemoveAbsentIsNoOp ==
    [][(IsCategorical /\ call'.op = "category_del"
          /\ ~Has(_categories, call'.name))
        => (/\ call'.kind = Returned
            /\ _categories' = _categories
            /\ _weight_total' = _weight_total)]_vars

\* ---- C2 ----
\* C2 (as stated): category_set(name, w) directly followed by
\* category_del(name) restores the total weight of before the category_set,
\* whether or not name was a key before.
C2_RoundTripRestoresTotal ==
    [][(call.op = "category_set" /\ call'.op = "category_del"
          /\ call'.name = call.name)
        => _weight_total' = call.pre]_vars

\* C2 (amended): category_set(name, w) directly followed by category_del(name)
\* leaves the total weight equal to the total of before the category_set minus
\* the weight name had before it (zero when name was not a key); the earlier
\* total is restored exactly when name was absent or had weight zero.
C2_RoundTripRemovesOldWeight ==
    [][(call.op = "category_set" /\ call'.op = "category_del"
          /\ call'.name = call.name)
        => /\ call'.kind = Returned
           /\ _weight_total' = call.pre - call.old
           /\ (~call.had => _weight_total' = call.pre)]_vars

C2_Witness ==
    /\ IsCategorical /\ call.op = "category_del" /\ call.roundtrip
    /\ call.old # 0
    /\ _weight_total = call.pre - call.old
    /\ _weight_total # call.pre

\* ---- C3 ----
\* C3: sampling a categorical distribution with no categories, or a uniform
\* distribution with low > high, ends in the EmptyDistribution error (the
\* ValueError of line 68 and of random.randint), never in a returned value or a
\* KeyError.
C3_EmptySampleRaises ==
    (call.op = "sample"
       /\ \/ IsCategorical /\ _categories = <<>>
          \/ IsUniform /\ low > high)
    => call.kind = EmptyDistribution

C3_Witness ==
    /\ IsCategorical /\ call.op = "sample" /\ _categories = <<>>
    /\ call.kind = EmptyDistribution

C3_WitnessUniform ==
    /\ IsUniform /\ call.op = "sample" /\ low > high
    /\ call.kind = EmptyDistribution

\* ---- C4 ----
\* C4: when the scan of a non-empty categorical distribution runs through all
\* labels without the running value becoming negative, the query returns the
\* last label of the descending-weight order and raises no error.
C4_ExhaustedScanReturnsLast ==
    (IsCategorical /\ IsQuery(call) /\ _categories # <<>>
       /\ NeverNegative(_categories, _order, call.u))
    => /\ call.kind = Returned
       /\ call.op = "sample" => call.value = _order[Len(_order)]
       /\ call.op = "median" => call.list = <<_order[Len(_order)]>>

\* ---- C5 ----
\* C5: with non-negative weights, a positive total weight and a drawn value in
\* [0, total), sample_one returns a key of the category set whose weight is
\* strictly positive.
C5_SampleHasPositiveWeight ==
    (IsCategorical /\ call.op = "sample" /\ NonNegative(_categories)
       /\ _weight_total > 0 /\ call.u >= 0 /\ call.u < 2 * _weight_total)
    => /\ call.kind = Returned
       /\ Has(_categories, call.value)
       /\ Get(_categories, call.value) > 0

C5_Witness ==
    /\ IsCategorical /\ call.op = "sample" /\ NonNegative(_categories)
    /\ _weight_total > 0 /\ call.u < 2 * _weight_total
    /\ Len(_categories) >= 2
    /\ call.kind = Returned /\ call.value = _order[2]

C5_WitnessBernoulli ==
    /\ IsCategorical /\ call.op = "sample" /\ _categories = bernoulli(1)
    /\ call.u < 2 * _weight_total /\ call.value = 1

\* ---- C6 ----
\* C6: with non-negative weights and a positive total weight, median() returns
\* a one-element list holding the first label, in the descending-weight order
\* it scans, at which the cumulative weight strictly exceeds half of the total
\* weight.
C6_MedianIsHalfWeightPoint ==
    (IsCategorical /\ call.op = "median" /\ NonNegative(_categories)
       /\ _weight_total > 0)
    => /\ call.kind = Returned
       /\ Len(call.list) = 1
       /\ IsDescendingOrder(_categories, _order)
       /\ IsHalfWeightPoint(_categories, _order, _weight_total, call.list[1])

C6_Witness ==
    /\ IsCategorical /\ call.op = "median" /\ NonNegative(_categories)
    /\ _weight_total > 0 /\ Len(_categories) = 2
    /\ call.kind = Returned
    /\ call.list = <<_order[2]>>

\* ---- C7 ----
\* C7: for low <= high, uniform.median() returns the two middle integers
\* [low + (count-1) div 2, low + count div 2] when count = high - low + 1 is
\* even and the single middle integer when count is odd, all within
\* [low, high].
C7_UniformMedianIsMiddle ==
    (IsUniform /\ call.op = "median" /\ low <= high)
    => LET count == high - low + 1
           m == call.list
       IN  /\ \A i \in 1 .. Len(m) : low <= m[i] /\ m[i] <= high
           /\ (count % 2 = 0) =>
                 /\ m = <<low + ((count - 1) \div 2), low + (count \div 2)>>
                 /\ m[2] = m[1] + 1
                 /\ m[1] - low = high - m[2]
           /\ (count % 2 = 1) =>
                 /\ Len(m) = 1
                 /\ m[1] - low = high - m[1]

C7_Witness ==
    /\ IsUniform /\ call.op = "median" /\ low = 1 /\ high = 6
    /\ call.list = <<3, 4>>

C7_WitnessOdd ==
    /\ IsUniform /\ call.op = "median" /\ low = 1 /\ high = 5
    /\ call.list = <<3>>

\* ---- C8 ----
\* C8: after any sequence of constructor, category_set and category_del calls
\* the running total weight is the sum of the weights in the category set.
C8_TotalIsSum ==
    IsCategorical => _weight_total = SumWeights(_categories)

C8_Witness ==
    /\ IsCategorical /\ call.op = "category_del" /\ call.kind = Returned
    /\ Len(_categories) >= 1
    /\ _weight_total = SumWeights(_categories)
    /\ _weight_total # 0

\* ---- C9 ----
\* C9: every category_set and category_del leaves the order cache dirty; a
\* query on a non-empty distribution with a dirty cache recomputes the order
\* and leaves the cache clean; whenever the cache is clean the cached order
\* lists exactly the current labels by non-increasing current weight.
C9_OrderCacheStateMachine ==
    [][/\ (IsCategorical /\ IsMutation(call')) => _order_sticky'
       /\ (IsCategorical /\ IsQuery(call') /\ _categories # <<>>
             /\ _order_sticky)
          => (~_order_sticky'
                /\ IsDescendingOrder(_categories', _order'))
       /\ (IsCategorical /\ ~_order_sticky')
          => IsDescendingOrder(_categories', _order')]_vars

C9_Witness ==
    /\ Clean /\ call.op = "median" /\ Len(_categories) = 2
    /\ _order # KeyList(_categories)
    /\ IsDescendingOrder(_categories, _order)

\* ---- C10 ----
\* C10: a query made while the order cache is clean leaves the cached order,
\* the category set, the total weight and the clean flag unchanged, and
\* median() gives the same outcome as the earlier median() calls made since
\* the last category_set / category_del.
C10_QueriesAreIdempotent ==
    [][(Clean /\ IsQuery(call'))
        => /\ _order' = _order
           /\ _categories' = _categories
           /\ _weight_total' = _weight_total
           /\ ~_order_sticky'
           /\ (call'.op = "median" /\ call'.med # <<>>)
              => call'.med = <<call'.kind, call'.list>>]_vars

C10_Witness ==
    /\ Clean /\ call.op = "median" /\ call.med # <<>>
    /\ call.kind = Returned /\ Len(_categories) >= 2
    /\ call.med = <<call.kind, call.list>>
====
